---- MODULE Spec2Model ----
(***************************************************************************)
(* Model of the REST API test-automation helpers: the structured Logger    *)
(* with its header/body sanitizers (src/utils/logger.ts), the per-verb     *)
(* ApiClient (src/unnamed/part_003, lines 424-659), the ApiClient with a   *)
(* shared dispatcher (src/unnamed/part_003, lines 685-847) and the         *)
(* environment configuration (src/utils/env.ts).                           *)
(*                                                                         *)
(* Strings on which the code works character by character (header names,   *)
(* object keys, URLs, the LOG_LEVEL text) are sequences of one-character   *)
(* strings; strings that are only stored and compared are TLA+ strings.    *)
(* A JSON-like value is a tagged record:                                   *)
(*   [t |-> "undefined"]  [t |-> "null"]  [t |-> "bool", b |-> ..]         *)
(*   [t |-> "num", n |-> ..]  [t |-> "str", s |-> ..]                      *)
(*   [t |-> "arr", a |-> <<..>>]  [t |-> "obj", o |-> [key |-> value]]     *)
(***************************************************************************)
EXTENDS Integers, Sequences, FiniteSets, TLC

VARIABLES
    sanOp,        \* function applied on its own: a sanitizer ("headers", "body"),
                  \* "buildUrl", or a function of the environment
    sanArg,       \* the argument handed to it
    sanRes,       \* its result, [t |-> "pending"] until the call has run
    sanPc,        \* "call" before the function ran, "done" after
    processEnv,   \* process.env: environment variable name |-> text
    logLevel,     \* Logger.logLevel, set once by the constructor
    console,      \* what was written to the console, in order
    file,         \* the lines appended to the log file, in order
    disk,         \* "ok": every append succeeds; "flaky": an append may fail
    extraHeaders, \* per request context: the headers given to setExtraHTTPHeaders
    calls,        \* per client call: where it stands, what it sent and got
    authTrail,    \* per request context: who set or cleared the token, and to what
    twin,         \* per client call: the same call made on the dispatcher ApiClient
    heap          \* the objects and arrays that exist, by reference (the place
                  \* in the sequence), where sharing and mutation matter

sanVars == <<sanOp, sanArg, sanRes, sanPc, heap>>

logVars == <<processEnv, logLevel, console, file, disk>>

cliVars == <<extraHeaders, calls, authTrail, twin>>

vars ==
    <<sanOp, sanArg, sanRes, sanPc, processEnv, logLevel, console, file, disk,
      extraHeaders, calls, authTrail, twin, heap>>

-----------------------------------------------------------------------------
(* Characters and strings *)

UpperChars == <<"A","B","C","D","E","F","G","H","I","J","K","L","M",
                "N","O","P","Q","R","S","T","U","V","W","X","Y","Z">>

LowerChars == <<"a","b","c","d","e","f","g","h","i","j","k","l","m",
                "n","o","p","q","r","s","t","u","v","w","x","y","z">>

LowerChar(c) ==
    IF \E i \in 1..Len(UpperChars) : UpperChars[i] = c
    THEN LowerChars[CHOOSE i \in 1..Len(UpperChars) : UpperChars[i] = c]
    ELSE c

\* String.prototype.toLowerCase
ToLowerCase(s) == [i \in 1..Len(s) |-> LowerChar(s[i])]

\* String.prototype.includes
Includes(s, sub) ==
    \E i \in 0..(Len(s) - Len(sub)) : SubSeq(s, i + 1, i + Len(sub)) = sub

\* String.prototype.startsWith / endsWith
StartsWith(s, pre) == Len(pre) <= Len(s) /\ SubSeq(s, 1, Len(pre)) = pre

EndsWith(s, suf) ==
    Len(suf) <= Len(s) /\ SubSeq(s, Len(s) - Len(suf) + 1, Len(s)) = suf

-----------------------------------------------------------------------------
(* JSON-like values *)

Undef == [t |-> "undefined"]

JNull == [t |-> "null"]

JBool(b) == [t |-> "bool", b |-> b]

JNum(n) == [t |-> "num", n |-> n]

JStr(s) == [t |-> "str", s |-> s]

JArr(a) == [t |-> "arr", a |-> a]

JObj(o) == [t |-> "obj", o |-> o]

Pending == [t |-> "pending"]

\* JavaScript truthiness of a value (the `!x` / `if (x)` tests of the code)
Truthy(v) ==
    CASE v.t = "undefined" -> FALSE
      [] v.t = "null" -> FALSE
      [] v.t = "bool" -> v.b
      [] v.t = "num" -> v.n # 0
      [] v.t = "str" -> v.s # ""
      [] OTHER -> TRUE

\* the constant redaction marker
REDACTED == "[REDACTED]"

-----------------------------------------------------------------------------
(* Logger.sanitizeHeaders *)

hAuthorization == <<"a","u","t","h","o","r","i","z","a","t","i","o","n">>

hCookie == <<"c","o","o","k","i","e">>

hXApiKey == <<"x","-","a","p","i","-","k","e","y">>

hXAuthToken == <<"x","-","a","u","t","h","-","t","o","k","e","n">>

\* const sensitiveKeys = ['authorization', 'cookie', 'x-api-key', 'x-auth-token']
sensitiveKeys == {hAuthorization, hCookie, hXApiKey, hXAuthToken}

\* A headers map is a function from header name to (string) value, or Undef.
\* `sanitized[key]` is looked up with the lowercase list entry itself, and the
\* value is replaced only when it is truthy (a non-empty string).
sanitizeHeaders(headers) ==
    IF headers = Undef THEN Undef
    ELSE [name \in DOMAIN headers |->
            IF name \in sensitiveKeys /\ headers[name] # ""
            THEN REDACTED
            ELSE headers[name]]

-----------------------------------------------------------------------------
(* Logger.sanitizeBody *)

fPassword == <<"p","a","s","s","w","o","r","d">>

fToken == <<"t","o","k","e","n">>

fSecret == <<"s","e","c","r","e","t">>

fKey == <<"k","e","y">>

fSsn == <<"s","s","n">>

\* the list entry is written 'creditCard', with a capital C
fCreditCard == <<"c","r","e","d","i","t","C","a","r","d">>

\* const sensitiveFields = ['password', 'token', 'secret', 'key', 'ssn', 'creditCard']
sensitiveFields == {fPassword, fToken, fSecret, fKey, fSsn, fCreditCard}

\* sensitiveFields.some(field => key.toLowerCase().includes(field))
isSensitiveField(key) ==
    \E field \in sensitiveFields : Includes(ToLowerCase(key), field)

\* JSON.parse(JSON.stringify(body)): a structural copy in which an object
\* property holding undefined is dropped and an array slot holding undefined
\* becomes null.
RECURSIVE JsonClone(_)
JsonClone(v) ==
    CASE v.t = "arr" ->
            JArr([i \in 1..Len(v.a) |->
                    IF v.a[i] = Undef THEN JNull ELSE JsonClone(v.a[i])])
      [] v.t = "obj" ->
            JObj([k \in {q \in DOMAIN v.o : v.o[q] # Undef} |-> JsonClone(v.o[k])])
      [] OTHER -> v

\* the inner closure sanitizeObject
RECURSIVE sanitizeObject(_)
sanitizeObject(obj) ==
    CASE obj.t = "arr" ->
            JArr([i \in 1..Len(obj.a) |-> sanitizeObject(obj.a[i])])
      [] obj.t = "obj" ->
            JObj([key \in DOMAIN obj.o |->
                    IF isSensitiveField(key)
                    THEN JStr(REDACTED)
                    ELSE sanitizeObject(obj.o[key])])
      [] OTHER -> obj

sanitizeBody(body) ==
    IF ~Truthy(body) THEN Undef
    ELSE sanitizeObject(JsonClone(body))

-----------------------------------------------------------------------------
(* Inputs of the sanitizers *)

nAuthorizationCap == <<"A","u","t","h","o","r","i","z","a","t","i","o","n">>

nCookieUpper == <<"C","O","O","K","I","E">>

nXApiKeyCap == <<"X","-","A","p","i","-","K","e","y">>

nXAuthTokenCap == <<"X","-","A","u","t","h","-","T","o","k","e","n">>

nContentType == <<"C","o","n","t","e","n","t","-","T","y","p","e">>

nAccept == <<"A","c","c","e","p","t">>

kPassword == <<"p","a","s","s","w","o","r","d">>

kPasswordCap == <<"P","a","s","s","w","o","r","d">>

kApiToken == <<"a","p","i","T","o","k","e","n">>

kUserSecret == <<"u","s","e","r","S","e","c","r","e","t">>

kApiKey == <<"a","p","i","K","e","y">>

kSsnUpper == <<"S","S","N">>

kCreditCard == <<"c","r","e","d","i","t","C","a","r","d">>

kCreditCardNumber == <<"c","r","e","d","i","t","C","a","r","d","N","u","m","b","e","r">>

kEmail == <<"e","m","a","i","l">>

kId == <<"i","d">>

kUser == <<"u","s","e","r">>

kItems == <<"i","t","e","m","s">>

\* header names as callers write them, in several letter cases
HeaderNames ==
    {hAuthorization, nAuthorizationCap, hCookie, nCookieUpper, hXApiKey,
     nXApiKeyCap, hXAuthToken, nXAuthTokenCap, nContentType, nAccept}

HeaderValues == {"", "v"}

\* most headers in one map
MaxHeaders == 2

HeaderInputs ==
    {Undef} \cup
    UNION {[N -> HeaderValues] :
             N \in {M \in SUBSET HeaderNames : Cardinality(M) <= MaxHeaders}}

\* field names of the objects handed to the body sanitizer
FieldKeys ==
    {kPassword, kPasswordCap, kApiToken, kUserSecret, kApiKey, kSsnUpper,
     kCreditCard, kCreditCardNumber, kEmail, kId}

\* most fields in one flat object
MaxKeys == 2

\* most levels of nesting around a flat object
MaxDepth == 2

Leaf == JStr("v")

TopScalars ==
    {Undef, JNull, JBool(TRUE), JBool(FALSE), JNum(0), JNum(1), JStr(""), JStr("v")}

FlatObjects ==
    {JObj([k \in K |-> Leaf]) :
        K \in {M \in SUBSET FieldKeys : Cardinality(M) <= MaxKeys}}

\* one more level of nesting: inside an array, inside an object, with siblings
Nest(X) ==
    X \cup {JArr(<<x>>) : x \in X}
      \cup {JArr(<<JNum(1), x>>) : x \in X}
      \cup {JObj((kUser :> x)) : x \in X}
      \cup {JObj((kItems :> x) @@ (kId :> JNum(1))) : x \in X}
      \cup {JObj((kApiToken :> x)) : x \in X}

RECURSIVE NestN(_, _)
NestN(X, n) == IF n = 0 THEN X ELSE NestN(Nest(X), n - 1)

BodyInputs == TopScalars \cup NestN(FlatObjects, MaxDepth)

-----------------------------------------------------------------------------
(* Environment (src/utils/env.ts) *)

tInfo == <<"i","n","f","o">>

tError == <<"e","r","r","o","r">>

tWarn == <<"w","a","r","n">>

tDebug == <<"d","e","b","u","g">>

\* process.env.NAME || fallback : an absent or empty entry gives the fallback
EnvOr(penv, name, fallback) ==
    IF name \in DOMAIN penv /\ penv[name] # <<>> THEN penv[name] ELSE fallback

\* LOG_LEVEL: process.env.LOG_LEVEL || 'info'
envLOG_LEVEL(penv) == EnvOr(penv, "LOG_LEVEL", tInfo)

Digits == <<"0","1","2","3","4","5","6","7","8","9">>

IsDigit(ch) == \E i \in DOMAIN Digits : Digits[i] = ch

DigitValue(ch) == (CHOOSE i \in DOMAIN Digits : Digits[i] = ch) - 1

NaN == [t |-> "NaN"]

\* the number written by the first n characters of text, all of them digits
RECURSIVE DecimalValue(_, _)
DecimalValue(text, n) ==
    IF n = 0 THEN 0 ELSE 10 * DecimalValue(text, n - 1) + DigitValue(text[n])

\* parseInt(text, 10) of a text without sign or leading blanks: the number
\* written by the leading digits, NaN when there is none
parseInt(text) ==
    LET n == CHOOSE m \in 0..Len(text) :
                 /\ \A j \in 1..m : IsDigit(text[j])
                 /\ m < Len(text) => ~IsDigit(text[m + 1])
    IN IF n = 0 THEN NaN ELSE JNum(DecimalValue(text, n))

tTrue == <<"t","r","u","e">>

dBASE_URL == <<"h","t","t","p",":","/","/","l","o","c","a","l","h","o","s","t",":","3","0","0","0">>

dAPI_BASE_URL == <<"h","t","t","p",":","/","/","l","o","c","a","l","h","o","s","t",":","3","0","0","0","/","a","p","i">>

dTEST_TIMEOUT == <<"3","0","0","0","0">>

\* export const env = { ... }: the settings of the three kinds (text with
\* `|| default`, integer with parseInt(... || default, 10), the boolean CI);
\* the other settings are written like BASE_URL or TEST_TIMEOUT.
env(penv) ==
    [BASE_URL |-> EnvOr(penv, "BASE_URL", dBASE_URL),
     API_BASE_URL |-> EnvOr(penv, "API_BASE_URL", dAPI_BASE_URL),
     TEST_TIMEOUT |-> parseInt(EnvOr(penv, "TEST_TIMEOUT", dTEST_TIMEOUT)),
     LOG_LEVEL |-> envLOG_LEVEL(penv),
     CI |-> ("CI" \in DOMAIN penv /\ penv["CI"] = tTrue)]

requiredVars == <<"BASE_URL", "API_BASE_URL">>

\* requiredVars.filter(varName => !process.env[varName]), in order
missingVars(penv) ==
    SelectSeq(requiredVars, LAMBDA v : ~(v \in DOMAIN penv /\ penv[v] # <<>>))

\* validateEnvironment(): throws Error('Missing required environment
\* variables: ' + missingVars.join(', ') + ...) when a name is missing
validateEnvironment(penv) ==
    IF Len(missingVars(penv)) > 0
    THEN [t |-> "thrown", names |-> missingVars(penv)]
    ELSE [t |-> "returned", names |-> <<>>]

-----------------------------------------------------------------------------
(* Logger (src/utils/logger.ts) *)

\* const levels = [LogLevel.ERROR, LogLevel.WARN, LogLevel.INFO, LogLevel.DEBUG]
levels == <<"error", "warn", "info", "debug">>

\* levels.indexOf(level)
LevelIndex(level) == CHOOSE i \in 1..Len(levels) : levels[i] = level

parseLogLevel(level) ==
    CASE ToLowerCase(level) = tError -> "error"
      [] ToLowerCase(level) = tWarn -> "warn"
      [] ToLowerCase(level) = tInfo -> "info"
      [] ToLowerCase(level) = tDebug -> "debug"
      [] OTHER -> "info"

\* faulty variant: the comparison is turned around
shouldLogReversed(current, level) == LevelIndex(level) >= LevelIndex(current)

\* faulty variant: the threshold itself is left out
shouldLogStrict(current, level) == LevelIndex(level) < LevelIndex(current)

\* messageLevelIndex <= currentLevelIndex
shouldLog(current, level) == LevelIndex(level) <= LevelIndex(current)

\* A message is a template with its interpolated parts: a (method, status or
\* state, as text) and url (characters).
Msg(tpl, a, url) == [tpl |-> tpl, a |-> a, url |-> url]

Plain(text) == Msg(text, "", <<>>)

\* JSON.stringify of a value: an Error has no enumerable property and is
\* written as {}.
JsonText(v) == IF v.t = "error" THEN JObj(<<>>) ELSE JsonClone(v)

\* The LogEntry built by log(); `by` records which caller made the call and is
\* no field of the program's entry. The timestamp is left out: no operation
\* reads the clock back.
LogEntry(level, message, data, by) ==
    [level |-> level, message |-> message, data |-> data, by |-> by]

\* logToConsole: the line goes to the console method of the entry's level; the
\* data is printed only when truthy.
logToConsole(con, entry) ==
    Append(con, [kind |-> "entry", stream |-> entry.level, level |-> entry.level,
                 message |-> entry.message,
                 data |-> IF Truthy(entry.data) THEN JsonText(entry.data) ELSE Undef,
                 by |-> entry.by])

\* console.error('Failed to write to log file:', error)
WriteFailure(con, entry) ==
    Append(con, [kind |-> "writeFailure", stream |-> "error", level |-> "none",
                 message |-> Plain("Failed to write to log file:"),
                 data |-> Undef, by |-> entry.by])

\* faulty variant: the file is rewritten with the new line
logToFileOverwriting(con, fil, entry, ok) ==
    IF ok
    THEN <<con, <<[level |-> entry.level, message |-> entry.message,
                   data |-> JsonText(entry.data), by |-> entry.by]>> >>
    ELSE <<WriteFailure(con, entry), fil>>

\* faulty variant: a failed append is swallowed without a report
logToFileSilent(con, fil, entry, ok) ==
    IF ok
    THEN <<con, Append(fil, [level |-> entry.level, message |-> entry.message,
                             data |-> JsonText(entry.data), by |-> entry.by])>>
    ELSE <<con, fil>>

\* faulty variant: the line is written by two appends, the text before the
\* data first
logToFileInPieces(con, fil, entry, ok) ==
    IF ok
    THEN <<con, Append(Append(fil, [level |-> entry.level, message |-> entry.message,
                                    data |-> "", by |-> entry.by]),
                       [level |-> entry.level, message |-> entry.message,
                        data |-> JsonText(entry.data), by |-> entry.by])>>
    ELSE <<WriteFailure(con, entry), fil>>

\* logToFile: one appended line, JSON.stringify(entry); `ok` tells whether
\* fs.appendFileSync succeeds.
logToFile(con, fil, entry, ok) ==
    IF ok
    THEN <<con, Append(fil, [level |-> entry.level, message |-> entry.message,
                             data |-> JsonText(entry.data), by |-> entry.by])>>
    ELSE <<WriteFailure(con, entry), fil>>

\* log(level, message, data): the pair <<console, file>> after the call
log(current, con, fil, level, message, data, by, ok) ==
    IF ~shouldLog(current, level) THEN <<con, fil>>
    ELSE logToFile(logToConsole(con, LogEntry(level, message, data, by)), fil,
                   LogEntry(level, message, data, by), ok)

\* error / warn / info / debug hand their data to log() as received
levelCall(current, con, fil, level, message, data, by, ok) ==
    log(current, con, fil, level, message, data, by, ok)

\* the decimal text of the numbers that are interpolated into strings
NumText(n) ==
    CASE n = 0 -> "0" [] n = 5 -> "5" [] n = 200 -> "200" [] n = 201 -> "201"
      [] n = 401 -> "401" [] n = 404 -> "404" [] n = 500 -> "500"

kHeaders == <<"h","e","a","d","e","r","s">>

kBody == <<"b","o","d","y">>

kDuration == <<"d","u","r","a","t","i","o","n">>

\* a headers map as the object it is inside a logged data value
HeadersJson(h) == IF h = Undef THEN Undef ELSE JObj([n \in DOMAIN h |-> JStr(h[n])])

\* the data object built by logRequest and logResponse
sanitizedData(headers, body) ==
    JObj((kHeaders :> HeadersJson(sanitizeHeaders(headers))) @@
         (kBody :> sanitizeBody(body)))

logRequest(current, con, fil, method, url, headers, body, by, ok) ==
    levelCall(current, con, fil, "info", Msg("API Request: ${method} ${url}", method, url),
              sanitizedData(headers, body), by, ok)

logResponse(current, con, fil, status, url, headers, body, by, ok) ==
    levelCall(current, con, fil, "info", Msg("API Response: ${status} ${url}", status, url),
              sanitizedData(headers, body), by, ok)

\* logTest: duration 0 (or none) gives no data; 'failed' is logged as an error
logTest(current, con, fil, testName, status, duration, by, ok) ==
    levelCall(current, con, fil, IF status = "failed" THEN "error" ELSE "info",
              Msg("Test ${status}: ${testName}", status, testName),
              IF duration # 0
              THEN JObj((kDuration :> JStr(NumText(duration) \o "ms")))
              ELSE Undef,
              by, ok)

-----------------------------------------------------------------------------
(* ApiClient, the per-verb implementation (src/unnamed/part_003:424-659) *)

sHttp == <<"h","t","t","p">>

sSlash == <<"/">>

\* BASE_URL: process.env.BASE_URL || 'http://localhost:3000'
envBASE_URL(penv) == EnvOr(penv, "BASE_URL", <<"h","t","t","p",":","/","/","l","o","c","a","l","h","o","s","t",":","3","0","0","0">>)

\* TEST_TIMEOUT: 30000 when process.env.TEST_TIMEOUT is not set
DefaultTestTimeout == 30000

buildUrl(baseUrl, endpoint) ==
    IF StartsWith(endpoint, sHttp) THEN endpoint
    ELSE (IF EndsWith(baseUrl, sSlash) THEN SubSeq(baseUrl, 1, Len(baseUrl) - 1)
          ELSE baseUrl)
         \o (IF StartsWith(endpoint, sSlash) THEN endpoint ELSE sSlash \o endpoint)

\* { ...a, ...b } : the entries of b replace those of a with the same name
Spread(a, b) ==
    [n \in DOMAIN a \cup DOMAIN b |-> IF n \in DOMAIN b THEN b[n] ELSE a[n]]

HeadersOrNone(h) == IF h = Undef THEN <<>> ELSE h

\* options: [headers, data, params, timeout], each Undef when not given
buildRequestOptions(method, options) ==
    [method |-> method,
     headers |-> Spread((nContentType :> "application/json") @@
                        (nAccept :> "application/json"),
                        HeadersOrNone(options.headers)),
     timeout |-> IF Truthy(options.timeout) THEN options.timeout
                 ELSE JNum(DefaultTestTimeout),
     data |-> IF Truthy(options.data) THEN options.data ELSE Undef,
     params |-> IF options.params # Undef THEN options.params ELSE Undef]

\* { ...options, data }
WithData(options, data) == [options EXCEPT !.data = data]

\* faulty variant: the given map is dropped
setHeadersNone(headers) == <<>>

\* faulty variant: the token is installed without the Bearer scheme
setAuthTokenBare(token) == (nAuthorizationCap :> token)

\* setAuthToken / clearAuthToken / setHeaders: the map handed to
\* requestContext.setExtraHTTPHeaders
setAuthToken(token) == (nAuthorizationCap :> "Bearer " \o token)

clearAuthToken == <<>>

setHeaders(headers) == headers

\* The request context sends its extra headers with every request; a header
\* given with the request itself replaces the extra header of that name.
TransportHeaders(extra, requestHeaders) == Spread(extra, requestHeaders)

\* response.json(): the parsed body, or a rejection when the text is no JSON
kOk == <<"o","k">>

kError == <<"e","r","r","o","r">>

kMessage == <<"m","e","s","s","a","g","e">>

ParseJson(text) ==
    CASE text = "{\"ok\":true}" ->
            [ok |-> TRUE, value |-> JObj((kOk :> JBool(TRUE)))]
      [] text = "{\"error\":{\"message\":\"x\"}}" ->
            [ok |-> TRUE, value |-> JObj((kError :> JObj((kMessage :> JStr("x")))))]
      [] OTHER -> [ok |-> FALSE, value |-> Undef]

\* faulty variant: the parse failure is not turned into null
jsonUnguarded(response) == ParseJson(response.body).value

\* await response.json().catch(() => null)
jsonOrNull(response) ==
    IF ParseJson(response.body).ok THEN ParseJson(response.body).value ELSE JNull

\* the ApiResponse literal of the try block
responseData(response) ==
    [t |-> "envelope",
     status |-> response.status,
     data |-> jsonOrNull(response),
     headers |-> response.headers,
     url |-> response.url]

NoResponse == [status |-> 0, body |-> "", headers |-> <<>>, url |-> <<>>]

NoError == [t |-> "error", id |-> "none"]

NoOptions == [headers |-> Undef, data |-> Undef, params |-> Undef, timeout |-> Undef]

IdleCall ==
    [pc |-> "idle", client |-> "none", method |-> "none", verb |-> "none",
     endpoint |-> <<>>, url |-> <<>>, given |-> NoOptions, options |-> buildRequestOptions("none", NoOptions),
     sent |-> <<>>, dispatches |-> 0, response |-> NoResponse, raised |-> NoError,
     result |-> Pending,
     auth |-> [scope |-> FALSE, expect |-> "none", who |-> "nobody", dropped |-> FALSE,
              installed |-> "none"]]

\* this.requestContext.get/post/put/delete/patch(url, requestOptions): the
\* transport takes the request, with the context's extra headers as they are
\* at this moment, and the call waits for it.
dispatch(call, verb, extra) ==
    [call EXCEPT !.pc = "awaitResponse", !.verb = verb,
                 !.sent = TransportHeaders(extra, call.options.headers),
                 !.dispatches = @ + 1]

\* the transport returned: status() is read and the call waits for json()
afterResponse(call) == [call EXCEPT !.pc = "awaitJson"]

\* faulty variant: a 4xx/5xx status is raised instead of returned
afterJsonRaisingOnStatus(call) ==
    IF call.response.status >= 400
    THEN [call EXCEPT !.pc = "rejected",
                      !.result = [t |-> "rejected",
                                  error |-> [t |-> "error", id |-> "HTTP status"]]]
    ELSE [call EXCEPT !.pc = "resolved", !.result = responseData(call.response)]

\* faulty variant: the envelope is built from a response that is not the
\* one this call received
afterJsonDetached(call) ==
    [call EXCEPT !.pc = "resolved", !.result = responseData(NoResponse)]

\* json() settled: the envelope is built and returned
afterJson(call) ==
    [call EXCEPT !.pc = "resolved", !.result = responseData(call.response)]

\* faulty variant: the catch block dispatches the request again
afterRaiseRetrying(call, error) ==
    [call EXCEPT !.pc = "awaitResponse", !.dispatches = @ + 1]

\* catch (error) { logger.error(...); throw error; }
afterRaise(call, error) ==
    [call EXCEPT !.pc = "rejected", !.result = [t |-> "rejected", error |-> error]]

-----------------------------------------------------------------------------
(* ApiClient, the implementation with a shared dispatcher                   *)
(* (src/unnamed/part_003:685-847). buildUrl and buildRequestOptions are the *)
(* same text as in the per-verb class and are the operators above.          *)

\* The class declares a field `request` (the request context, assigned by the
\* constructor) and a method `request` (the dispatcher). On an instance the
\* own property hides the prototype's method: this.request is the context.
thisRequest == [kind |-> "object", is |-> "APIRequestContext"]

Callable(v) == v.kind = "function"

NotAFunction == [t |-> "error", id |-> "TypeError: this.request is not a function"]

IdleTwin ==
    [pc |-> "idle", dispatches |-> 0, result |-> Pending, console |-> <<>>, file |-> <<>>]

\* what the transport did with a request: answered it or raised
Answered(response) == [t |-> "response", response |-> response, error |-> NoError]

Failed(error) == [t |-> "raised", response |-> NoResponse, error |-> error]

\* private async request(method, endpoint, options), run to its end against a
\* transport with the given outcome and a log of its own
privateRequest(k, current, baseUrl, method, endpoint, options, outcome) ==
    LET url == buildUrl(baseUrl, endpoint)
        announced == levelCall(current, <<>>, <<>>, "info",
                               Msg("Making ${method} request to: ${url}", method, url),
                               Undef, k, TRUE)
        closed ==
            IF outcome.t = "response"
            THEN levelCall(current, announced[1], announced[2], "info",
                           Msg("Response received: ${status} - ${url}",
                               NumText(responseData(outcome.response).status), url),
                           Undef, k, TRUE)
            ELSE levelCall(current, announced[1], announced[2], "error",
                           Msg("Request failed: ${method} ${url}", method, url),
                           outcome.error, k, TRUE)
    IN [pc |-> "settled", dispatches |-> 1,
        result |-> IF outcome.t = "response" THEN responseData(outcome.response)
                   ELSE [t |-> "rejected", error |-> outcome.error],
        console |-> closed[1], file |-> closed[2]]

\* get / post / put / delete / patch: return this.request(METHOD, endpoint, ...)
dispatcherCall(k, current, baseUrl, method, endpoint, options, outcome) ==
    IF Callable(thisRequest)
    THEN privateRequest(k, current, baseUrl, method, endpoint, options, outcome)
    ELSE [IdleTwin EXCEPT !.pc = "settled",
                          !.result = [t |-> "rejected", error |-> NotAFunction]]

\* The clients of the test suites: two clients built over the one request
\* context of a test, one with an explicit base URL, one with none.
Clients == {"api", "auth"}

Contexts == {"request"}

contextOf(c) == "request"

baseUrlArg(c) == IF c = "api" THEN <<"h","t","t","p",":","/","/","x","/">> ELSE <<>>

\* constructor: this.baseUrl = baseUrl || env.BASE_URL
baseUrlOf(c, penv) == IF baseUrlArg(c) # <<>> THEN baseUrlArg(c) ELSE envBASE_URL(penv)

\* most client calls of one run
MaxCalls == 1

CallIds == 1..MaxCalls

NoTrail == [who |-> "nobody", last |-> "none", dropped |-> FALSE, installed |-> "none"]

MixedTrail == [who |-> "several", last |-> "none", dropped |-> FALSE, installed |-> "none"]

ClientsConstructed ==
    /\ extraHeaders = [r \in Contexts |-> <<>>]
    /\ calls = [k \in CallIds |-> IdleCall]
    /\ authTrail = [r \in Contexts |-> NoTrail]
    /\ twin = [k \in CallIds |-> IdleTwin]

-----------------------------------------------------------------------------
(* The Logger singleton and calls of its public methods *)

\* constructor(): the level is parsed once from the configuration
LoggerConstructed(penv) ==
    /\ processEnv = penv
    /\ logLevel = parseLogLevel(envLOG_LEVEL(penv))
    /\ console = <<>>
    /\ file = <<>>

SanIdle ==
    /\ sanOp = "none" /\ sanArg = Undef /\ sanRes = Pending /\ sanPc = "idle"
    /\ heap = <<>>

tDebugUpper == <<"D","E","B","U","G">>

tVerbose == <<"v","e","r","b","o","s","e">>

LogLevelTexts == {tError, tWarn, tInfo, tDebugUpper, tVerbose, <<>>}

\* process.env with LOG_LEVEL absent or set to one of the texts
EnvInputs == {<<>>} \cup {("LOG_LEVEL" :> txt) : txt \in LogLevelTexts}

\* most console writes of one run
MaxLog == 3

\* a value that must not reach a log, and the header value carrying it
Secret == "s3cret"

Secrets == {Secret, "Bearer " \o Secret}

uRegister == <<"h","t","t","p",":","/","/","x","/","a","p","i","/","a","u","t","h","/","r","e","g","i","s","t","e","r">>

DataInputs ==
    {Undef, JObj((kEmail :> JStr("a@b.com")) @@ (kPassword :> JStr(Secret)))}

RequestHeaderInputs ==
    {(nContentType :> "application/json"),
     (nContentType :> "application/json") @@ (nAuthorizationCap :> "Bearer " \o Secret)}

ResponseHeaderInputs == {Undef, (hCookie :> Secret)}

RequestBodyInputs ==
    {Undef, JObj((kEmail :> JStr("a@b.com")) @@ (kPassword :> JStr(Secret)))}

ResponseBodyInputs ==
    {JObj((kUser :> JObj((kId :> JStr("u1")))) @@ (fToken :> JStr(Secret))),
     JArr(<<JObj((kCreditCard :> JStr(Secret)))>>)}

\* whether fs.appendFileSync may fail
WriteOutcomes == IF disk = "flaky" THEN BOOLEAN ELSE {TRUE}

LogRoom == Len(console) + 2 <= MaxLog

LogStep(pair) ==
    /\ console' = pair[1]
    /\ file' = pair[2]
    /\ UNCHANGED <<processEnv, logLevel, disk, sanVars, cliVars>>

LoggerError ==
    /\ LogRoom
    /\ \E data \in DataInputs, ok \in WriteOutcomes :
         LogStep(levelCall(logLevel, console, file, "error", Plain("m"), data, 0, ok))

LoggerWarn ==
    /\ LogRoom
    /\ \E data \in DataInputs, ok \in WriteOutcomes :
         LogStep(levelCall(logLevel, console, file, "warn", Plain("m"), data, 0, ok))

LoggerInfo ==
    /\ LogRoom
    /\ \E data \in DataInputs, ok \in WriteOutcomes :
         LogStep(levelCall(logLevel, console, file, "info", Plain("m"), data, 0, ok))

LoggerDebug ==
    /\ LogRoom
    /\ \E data \in DataInputs, ok \in WriteOutcomes :
         LogStep(levelCall(logLevel, console, file, "debug", Plain("m"), data, 0, ok))

LoggerLogRequest ==
    /\ LogRoom
    /\ \E headers \in RequestHeaderInputs, body \in RequestBodyInputs, ok \in WriteOutcomes :
         LogStep(logRequest(logLevel, console, file, "POST", uRegister, headers, body,
                            0, ok))

LoggerLogResponse ==
    /\ LogRoom
    /\ \E headers \in ResponseHeaderInputs, body \in ResponseBodyInputs, ok \in WriteOutcomes :
         LogStep(logResponse(logLevel, console, file, "201", uRegister, headers, body,
                             0, ok))

LoggerLogTest ==
    /\ LogRoom
    /\ \E status \in {"started", "passed", "failed"}, duration \in {0, 5}, ok \in WriteOutcomes :
         LogStep(logTest(logLevel, console, file, <<"t">>, status, duration, 0, ok))

LogInit ==
    /\ SanIdle
    /\ ClientsConstructed
    /\ disk = "flaky"
    /\ \E penv \in EnvInputs : LoggerConstructed(penv)

LogNext ==
    \/ LoggerError
    \/ LoggerWarn
    \/ LoggerInfo
    \/ LoggerDebug
    \/ LoggerLogRequest
    \/ LoggerLogResponse
    \/ LoggerLogTest

SpecLog == LogInit /\ [][LogNext]_vars

\* Calls of error / warn / info / debug alone
LevelsNext ==
    \/ LoggerError
    \/ LoggerWarn
    \/ LoggerInfo
    \/ LoggerDebug

SpecLevels == LogInit /\ [][LevelsNext]_vars

RECURSIVE ContainsSecret(_)
ContainsSecret(v) ==
    CASE v.t = "str" -> v.s \in Secrets
      [] v.t = "arr" -> \E i \in 1..Len(v.a) : ContainsSecret(v.a[i])
      [] v.t = "obj" -> \E k \in DOMAIN v.o : ContainsSecret(v.o[k])
      [] OTHER -> FALSE

RECURSIVE ContainsRedacted(_)
ContainsRedacted(v) ==
    CASE v.t = "str" -> v.s = REDACTED
      [] v.t = "arr" -> \E i \in 1..Len(v.a) : ContainsRedacted(v.a[i])
      [] v.t = "obj" -> \E k \in DOMAIN v.o : ContainsRedacted(v.o[k])
      [] OTHER -> FALSE

\* C4 (as claimed): whatever logging calls were made, nothing written to the
\* console or to the log file carries the original value of a field (or
\* header) with a sensitive name from the data passed to the call.
C4_NoSensitiveValueLogged ==
    /\ \A i \in DOMAIN console : ~ContainsSecret(console[i].data)
    /\ \A i \in DOMAIN file : ~ContainsSecret(file[i].data)

-----------------------------------------------------------------------------
(* Client calls, the transport's answers, and the token operations *)

eMe == <<"/","m","e">>

eRegister == <<"r","e","g","i","s","t","e","r">>

uRedirected == <<"h","t","t","p",":","/","/","x","/","v","2">>

hContentType == <<"c","o","n","t","e","n","t","-","t","y","p","e">>

Tokens == {"t1", "t2"}

Credentials == JObj((kEmail :> JStr("a@b.com")) @@ (kPassword :> JStr(Secret)))

OwnAuthorization == [NoOptions EXCEPT !.headers = (nAuthorizationCap :> "Basic u")]

\* what a transport may answer to a request for url
Responses(url) ==
    {[status |-> 200, body |-> "{\"ok\":true}",
      headers |-> (hContentType :> "application/json"), url |-> uRedirected],
     [status |-> 401, body |-> "{\"error\":{\"message\":\"x\"}}",
      headers |-> (hContentType :> "application/json"), url |-> url],
     [status |-> 500, body |-> "<html>",
      headers |-> (hContentType :> "text/html"), url |-> url]}

TransportErrors == {[t |-> "error", id |-> "ECONNREFUSED"], [t |-> "error", id |-> "timeout"]}

\* the token state a request of client c is expected to carry, as far as the
\* calls made on its request context tell
AuthSnapshot(c) ==
    [scope |-> authTrail[contextOf(c)].who \in {"nobody", c},
     expect |-> authTrail[contextOf(c)].last,
     who |-> authTrail[contextOf(c)].who,
     dropped |-> authTrail[contextOf(c)].dropped,
     installed |-> authTrail[contextOf(c)].installed]

Logged(pair) == console' = pair[1] /\ file' = pair[2]

\* The part of a per-verb method up to its first await: the URL and the
\* request options are built, the request is announced and dispatched.
Begin(k, c, method, verb, endpoint, options, ok) ==
    /\ calls[k].pc = "idle"
    /\ \A j \in 1..(k - 1) : calls[j].pc # "idle"
    /\ LET url == buildUrl(baseUrlOf(c, processEnv), endpoint)
           made == [IdleCall EXCEPT !.client = c, !.method = method, !.url = url,
                                    !.endpoint = endpoint,
                                    !.given = options,
                                    !.options = buildRequestOptions(method, options),
                                    !.auth = AuthSnapshot(c)]
       IN /\ Logged(levelCall(logLevel, console, file, "info",
                              Msg("Making ${method} request to: ${url}", method, url),
                              Undef, k, ok))
          /\ calls' = [calls EXCEPT
                         ![k] = dispatch(made, verb, extraHeaders[contextOf(c)])]
    /\ UNCHANGED <<extraHeaders, authTrail, processEnv, logLevel, disk, sanVars, twin>>

ClientGet ==
    \E k \in DOMAIN calls, c \in Clients, options \in {NoOptions, OwnAuthorization},
       ok \in WriteOutcomes :
        Begin(k, c, "GET", "get", eMe, options, ok)

ClientPost ==
    \E k \in DOMAIN calls, c \in {"api"}, data \in {Undef, Credentials}, ok \in WriteOutcomes :
        Begin(k, c, "POST", "post", eRegister, WithData(NoOptions, data), ok)

ClientPut ==
    \E k \in DOMAIN calls, c \in {"api"}, ok \in WriteOutcomes :
        Begin(k, c, "PUT", "put", eMe, WithData(NoOptions, Credentials), ok)

ClientDelete ==
    \E k \in DOMAIN calls, c \in {"api"}, ok \in WriteOutcomes :
        Begin(k, c, "DELETE", "delete", eMe, NoOptions, ok)

ClientPatch ==
    \E k \in DOMAIN calls, c \in {"api"}, ok \in WriteOutcomes :
        Begin(k, c, "PATCH", "patch", eMe, WithData(NoOptions, Credentials), ok)

\* the transport's promise is fulfilled
TransportResponds ==
    \E k \in DOMAIN calls :
        /\ calls[k].pc = "awaitResponse"
        /\ \E response \in Responses(calls[k].url) :
             calls' = [calls EXCEPT
                         ![k] = afterResponse([calls[k] EXCEPT !.response = response])]
        /\ UNCHANGED <<extraHeaders, authTrail, logVars, sanVars, twin>>

\* json() has settled: headers() and url() are read, the response is
\* announced and the envelope returned
JsonSettles ==
    \E k \in DOMAIN calls, ok \in WriteOutcomes :
        /\ calls[k].pc = "awaitJson"
        /\ calls' = [calls EXCEPT ![k] = afterJson(calls[k])]
        /\ Logged(levelCall(logLevel, console, file, "info",
                            Msg("Response received: ${status} - ${url}",
                                NumText(responseData(calls[k].response).status), calls[k].url),
                            Undef, k, ok))
        /\ UNCHANGED <<extraHeaders, authTrail, processEnv, logLevel, disk, sanVars, twin>>

\* the transport's promise is rejected: the catch block logs and rethrows
TransportRaises ==
    \E k \in DOMAIN calls, error \in TransportErrors, ok \in WriteOutcomes :
        /\ calls[k].pc = "awaitResponse"
        /\ calls' = [calls EXCEPT
                       ![k] = afterRaise([calls[k] EXCEPT !.raised = error], error)]
        /\ Logged(levelCall(logLevel, console, file, "error",
                            Msg("Request failed: ${method} ${url}",
                                calls[k].method, calls[k].url),
                            error, k, ok))
        /\ UNCHANGED <<extraHeaders, authTrail, processEnv, logLevel, disk, sanVars, twin>>

Trail(c, last) ==
    IF authTrail[contextOf(c)].who \in {"nobody", c}
    THEN [who |-> c, last |-> last, dropped |-> FALSE,
          installed |-> authTrail[contextOf(c)].installed]
    ELSE [MixedTrail EXCEPT !.installed = authTrail[contextOf(c)].installed]

ClientSetAuthToken ==
    \E c \in Clients, token \in Tokens :
        /\ extraHeaders' = [extraHeaders EXCEPT ![contextOf(c)] = setAuthToken(token)]
        /\ authTrail' = [authTrail EXCEPT ![contextOf(c)] = Trail(c, token)]
        /\ UNCHANGED <<calls, logVars, sanVars, twin>>

ClientClearAuthToken ==
    \E c \in Clients :
        /\ extraHeaders' = [extraHeaders EXCEPT ![contextOf(c)] = clearAuthToken]
        /\ authTrail' = [authTrail EXCEPT ![contextOf(c)] = Trail(c, "none")]
        /\ UNCHANGED <<calls, logVars, sanVars, twin>>

\* the header maps given to setHeaders, by name
HeaderMapNames == {"apiKey", "authToken"}

HeaderMap(id) ==
    CASE id = "apiKey" -> (nXApiKeyCap :> "k")
      [] id = "authToken" -> (nXAuthTokenCap :> "a")

\* after setHeaders the trail names the map, and tells whether a header that
\* was installed before is missing from it
HeadersTrail(c, id) ==
    [who |-> "several", last |-> id,
     dropped |-> DOMAIN extraHeaders[contextOf(c)] \ DOMAIN HeaderMap(id) # {},
     installed |-> id]

ClientSetHeaders ==
    \E c \in {"api"}, id \in HeaderMapNames :
        /\ extraHeaders' = [extraHeaders EXCEPT ![contextOf(c)] = setHeaders(HeaderMap(id))]
        /\ authTrail' = [authTrail EXCEPT ![contextOf(c)] = HeadersTrail(c, id)]
        /\ UNCHANGED <<calls, logVars, sanVars, twin>>

\* Client calls under every LOG_LEVEL, with a log file that may fail
ClientInit ==
    /\ SanIdle
    /\ ClientsConstructed
    /\ disk = "flaky"
    /\ \E penv \in EnvInputs : LoggerConstructed(penv)

ClientNext ==
    \/ ClientGet
    \/ ClientPost
    \/ ClientPut
    \/ ClientDelete
    \/ ClientPatch
    \/ TransportResponds
    \/ JsonSettles
    \/ TransportRaises

SpecClient == ClientInit /\ [][ClientNext]_vars

\* A settled call of the per-verb client is made again, with the same
\* arguments and the same outcome of the transport, on a dispatcher client
\* constructed the same way.
DispatcherCall ==
    \E k \in DOMAIN calls :
        /\ calls[k].pc \in {"resolved", "rejected"}
        /\ twin[k].pc = "idle"
        /\ twin' = [twin EXCEPT
                      ![k] = dispatcherCall(k, logLevel,
                                            baseUrlOf(calls[k].client, processEnv),
                                            calls[k].method, calls[k].endpoint,
                                            calls[k].given,
                                            IF calls[k].pc = "resolved"
                                            THEN Answered(calls[k].response)
                                            ELSE Failed(calls[k].raised))]
        /\ UNCHANGED <<extraHeaders, calls, authTrail, logVars, sanVars>>

\* Both implementations under every LOG_LEVEL, with a log file that takes
\* every line
TwinInit ==
    /\ SanIdle
    /\ ClientsConstructed
    /\ disk = "ok"
    /\ \E penv \in EnvInputs : LoggerConstructed(penv)

TwinNext == ClientNext \/ DispatcherCall

SpecTwin == TwinInit /\ [][TwinNext]_vars

\* Client calls together with the token operations, with a quiet logger
\* (LOG_LEVEL=error) and a log file that takes every line
AuthInit ==
    /\ SanIdle
    /\ ClientsConstructed
    /\ disk = "ok"
    /\ LoggerConstructed(("LOG_LEVEL" :> tError))

AuthNext ==
    \/ ClientGet
    \/ TransportResponds
    \/ JsonSettles
    \/ TransportRaises
    \/ ClientSetAuthToken
    \/ ClientClearAuthToken

SpecAuth == AuthInit /\ [][AuthNext]_vars

\* Requests as they are handed to the transport, between token and header
\* operations of the two clients; the transport's answers play no part.
HeadersNext ==
    \/ ClientGet
    \/ ClientSetAuthToken
    \/ ClientClearAuthToken
    \/ ClientSetHeaders

SpecHeaders == AuthInit /\ [][HeadersNext]_vars

-----------------------------------------------------------------------------
(* Properties of client calls *)

EntriesBy(k, level) ==
    {i \in DOMAIN console :
        console[i].by = k /\ console[i].kind = "entry" /\ console[i].level = level}

LinesBy(k, level) ==
    {i \in DOMAIN file : file[i].by = k /\ file[i].level = level}

WriteFailuresBy(k) ==
    {i \in DOMAIN console : console[i].by = k /\ console[i].kind = "writeFailure"}

Returned(k) == calls[k].response # NoResponse

Raised(k) == calls[k].raised # NoError

\* C5 (as claimed): for a call that received a response (info-level enabled),
\* the log holds an entry of the call carrying the sanitized request headers
\* and body, and one carrying the sanitized response headers and body.
C5_SanitizedRequestAndResponseLogged ==
    \A k \in CallIds :
        (calls[k].pc = "resolved" /\ shouldLog(logLevel, "info"))
        => /\ \E i \in DOMAIN console :
                /\ console[i].by = k
                /\ console[i].data =
                      JsonText(sanitizedData(calls[k].options.headers,
                                             calls[k].options.data))
           /\ \E i \in DOMAIN console :
                /\ console[i].by = k
                /\ console[i].data =
                      JsonText(sanitizedData(calls[k].result.headers,
                                             calls[k].result.data))

\* C6: a call whose transport raised is rejected with that very error, and
\* the logger recorded exactly one error-level entry for it, whose message
\* names the call's method and built URL, whatever LOG_LEVEL is configured
\* (on the console always; in the file too unless that append failed).
C6_TransportErrorRethrownAndLoggedOnce ==
    \A k \in CallIds :
        Raised(k)
        => /\ calls[k].pc = "rejected"
           /\ calls[k].result = [t |-> "rejected", error |-> calls[k].raised]
           /\ Cardinality(EntriesBy(k, "error")) = 1
           /\ \A i \in EntriesBy(k, "error") :
                console[i].message =
                    Msg("Request failed: ${method} ${url}", calls[k].method, calls[k].url)
           /\ \/ Cardinality(LinesBy(k, "error")) = 1
              \/ LinesBy(k, "error") = {} /\ WriteFailuresBy(k) # {}
           /\ \A i \in LinesBy(k, "error") :
                file[i].message =
                    Msg("Request failed: ${method} ${url}", calls[k].method, calls[k].url)

\* a rejected call under a LOG_LEVEL text the logger does not recognise
C6_Witness ==
    \E k \in CallIds :
        /\ calls[k].pc = "rejected"
        /\ calls[k].method = "DELETE"
        /\ "LOG_LEVEL" \in DOMAIN processEnv
        /\ processEnv["LOG_LEVEL"] = tVerbose

\* C7: when the transport's response body is no JSON, the call is not
\* rejected: it resolves with data null and the response's own status,
\* headers and url.
C7_NonJsonBodyGivesNullData ==
    \A k \in CallIds :
        (Returned(k) /\ ~ParseJson(calls[k].response.body).ok)
        => /\ calls[k].pc \in {"awaitJson", "resolved"}
           /\ calls[k].pc = "resolved"
              => calls[k].result = [t |-> "envelope",
                                    status |-> calls[k].response.status,
                                    data |-> JNull,
                                    headers |-> calls[k].response.headers,
                                    url |-> calls[k].response.url]

C7_Witness ==
    \E k \in CallIds :
        /\ calls[k].pc = "resolved"
        /\ calls[k].response.body = "<html>"
        /\ calls[k].result.data = JNull

\* C8: a call resolves with an envelope exactly when the transport returned a
\* response and is rejected exactly when the transport raised; the status,
\* 4xx and 5xx included, is the response's, and a returned response leaves no
\* error-level entry.
C8_ResolvesIffTransportReturned ==
    \A k \in CallIds :
        /\ calls[k].pc = "resolved" => (Returned(k) /\ ~Raised(k))
        /\ calls[k].pc = "rejected" => (Raised(k) /\ ~Returned(k))
        /\ Returned(k)
           => /\ calls[k].pc \in {"awaitJson", "resolved"}
              /\ EntriesBy(k, "error") = {}
              /\ LinesBy(k, "error") = {}
              /\ calls[k].pc = "resolved"
                 => /\ calls[k].result.t = "envelope"
                    /\ calls[k].result.status = calls[k].response.status
        /\ Raised(k) => calls[k].pc = "rejected" /\ calls[k].result.t = "rejected"

C8_Witness ==
    \E k \in CallIds :
        /\ calls[k].pc = "resolved"
        /\ calls[k].response.status = 500
        /\ calls[k].result.status = 500

\* C9: every call hands its request to the transport exactly once, whether
\* the transport answers or raises; a failed call makes no further request.
C9_DispatchedExactlyOnce ==
    \A k \in CallIds :
        calls[k].dispatches = IF calls[k].pc = "idle" THEN 0 ELSE 1

C9_Witness ==
    \E k \in CallIds : calls[k].pc = "rejected" /\ calls[k].dispatches = 1

OwnAuthorizationGiven(k) ==
    nAuthorizationCap \in DOMAIN HeadersOrNone(calls[k].given.headers)

C11_OtherInstancesUnaffected ==
    \A k \in CallIds :
        (calls[k].pc # "idle" /\ calls[k].auth.who \in Clients \ {calls[k].client})
        => calls[k].sent = calls[k].options.headers

C28_TokenOpsKeepOtherHeaders ==
    \A k \in CallIds :
        (calls[k].pc # "idle" /\ calls[k].auth.installed # "none")
        => LET map == HeaderMap(calls[k].auth.installed)
               own == calls[k].options.headers
           IN \A n \in DOMAIN map \ DOMAIN own :
                n \in DOMAIN calls[k].sent /\ calls[k].sent[n] = map[n]

ConsoleOf(k) == SelectSeq(console, LAMBDA e : e.by = k)

FileOf(k) == SelectSeq(file, LAMBDA e : e.by = k)

\* C13 (as claimed): a call made on the dispatcher implementation with the
\* arguments and the transport outcome of a call made on the per-verb
\* implementation dispatches as often, writes the same log entries and
\* settles with the same result.
C13_ImplementationsEquivalent ==
    \A k \in CallIds :
        twin[k].pc = "settled"
        => /\ twin[k].dispatches = calls[k].dispatches
           /\ twin[k].result = calls[k].result
           /\ twin[k].console = ConsoleOf(k)
           /\ twin[k].file = FileOf(k)

-----------------------------------------------------------------------------
(* buildUrl applied to one base URL and one endpoint *)

\* endpoints without a scheme, written without a leading slash
RelativeStems ==
    {<<"y">>,
     <<"u","s","e","r","s">>,
     <<>>,
     <<"h","t","t","p","f","o","o">>,
     <<"h","t","t","p","-","s","t","a","t","u","s">>,
     <<"a","/","b">>}

\* endpoints with a scheme
AbsoluteEndpoints ==
    {<<"h","t","t","p",":","/","/","h","/","p">>,
     <<"h","t","t","p","s",":","/","/","h","/","p">>,
     <<"f","t","p",":","/","/","h","/","p">>,
     <<"H","T","T","P",":","/","/","h","/","p">>}

EndpointInputs ==
    RelativeStems \cup {sSlash \o e : e \in RelativeStems} \cup AbsoluteEndpoints

\* base URLs, written without a trailing slash
BaseStems ==
    {<<"h","t","t","p",":","/","/","x">>,
     <<"h","t","t","p",":","/","/","l","o","c","a","l","h","o","s","t",":","3","0","0","0">>,
     <<"h","t","t","p","s",":","/","/","a","p","i",".","x","/","v","1">>}

BaseInputs == BaseStems \cup {b \o sSlash : b \in BaseStems}

UrlInit ==
    /\ sanPc = "call"
    /\ heap = <<>>
    /\ sanOp = "buildUrl"
    /\ sanRes = Pending
    /\ sanArg \in [baseUrl : BaseInputs, endpoint : EndpointInputs]
    /\ LoggerConstructed(<<>>)
    /\ disk = "ok"
    /\ ClientsConstructed

CallBuildUrl ==
    /\ sanPc = "call" /\ sanOp = "buildUrl"
    /\ sanRes' = [t |-> "url", s |-> buildUrl(sanArg.baseUrl, sanArg.endpoint)]
    /\ sanPc' = "done"
    /\ UNCHANGED <<sanOp, sanArg, heap>>
    /\ UNCHANGED <<logVars, cliVars>>

UrlNext == CallBuildUrl

SpecUrl == UrlInit /\ [][UrlNext]_vars

Letters == {LowerChars[i] : i \in DOMAIN LowerChars} \cup {UpperChars[i] : i \in DOMAIN UpperChars}

SchemeChars == Letters \cup {"0","1","2","3","4","5","6","7","8","9","+","-","."}

\* a scheme: a letter, then letters, digits, + - . up to a colon
HasScheme(e) ==
    \E i \in 2..Len(e) :
        /\ e[i] = ":"
        /\ e[1] \in Letters
        /\ \A j \in 1..(i - 1) : e[j] \in SchemeChars

WithoutTrailingSlash(b) ==
    IF Len(b) > 0 /\ b[Len(b)] = "/" THEN SubSeq(b, 1, Len(b) - 1) ELSE b

WithoutLeadingSlash(e) ==
    IF Len(e) > 0 /\ e[1] = "/" THEN SubSeq(e, 2, Len(e)) ELSE e

Joined(b, e) == WithoutTrailingSlash(b) \o sSlash \o WithoutLeadingSlash(e)

UrlDone == sanPc = "done" /\ sanOp = "buildUrl"

\* C14 (as claimed): for an endpoint without a scheme, given with or without
\* a leading slash, and a base URL given with or without a trailing slash,
\* buildUrl returns the base without its trailing slash, one "/", and the
\* endpoint without its leading slash.
C14_JoinInsensitiveToSlashes ==
    (UrlDone /\ ~HasScheme(sanArg.endpoint))
    => sanRes.s = Joined(sanArg.baseUrl, sanArg.endpoint)

\* The join of C14 for the endpoints that do not begin with the letters http.
BuildUrlJoinsEndpointsNotBeginningHttp ==
    (UrlDone /\ ~StartsWith(sanArg.endpoint, sHttp))
    => sanRes.s = Joined(sanArg.baseUrl, sanArg.endpoint)

\* C15 (as claimed): buildUrl returns the endpoint unchanged exactly when the
\* endpoint has a scheme; every other endpoint is joined to the base URL.
C15_AbsoluteIffScheme ==
    UrlDone
    => /\ (sanRes.s = sanArg.endpoint) <=> HasScheme(sanArg.endpoint)
       /\ ~HasScheme(sanArg.endpoint)
          => sanRes.s = Joined(sanArg.baseUrl, sanArg.endpoint)

-----------------------------------------------------------------------------
(* The functions of the environment applied to one process environment *)

EntryTexts(name) ==
    CASE name = "BASE_URL" -> {<<>>, <<"h","t","t","p",":","/","/","x">>}
      [] name = "API_BASE_URL" -> {<<>>, <<"h","t","t","p",":","/","/","x","/","a","p","i">>}
      [] name = "TEST_TIMEOUT" -> {<<>>, <<"5","0","0","0">>, <<"1","2","s">>}
      [] name = "CI" -> {<<>>, tTrue, <<"1">>}
      [] name = "LOG_LEVEL" -> {<<>>, tDebug}

EntryNames == {"BASE_URL", "API_BASE_URL", "TEST_TIMEOUT", "CI", "LOG_LEVEL"}

\* process.env: any of the names absent, or set to one of its texts
ProcessEnvInputs ==
    UNION {{penv \in [names -> UNION {EntryTexts(n) : n \in EntryNames}] :
                \A n \in names : penv[n] \in EntryTexts(n)} :
           names \in SUBSET EntryNames}

EnvInit ==
    /\ sanPc = "call"
    /\ heap = <<>>
    /\ sanOp \in {"env", "validateEnvironment"}
    /\ sanArg = Undef
    /\ sanRes = Pending
    /\ \E penv \in ProcessEnvInputs : LoggerConstructed(penv)
    /\ disk = "ok"
    /\ ClientsConstructed

\* the module is loaded: the env object is built from process.env
LoadEnv ==
    /\ sanPc = "call" /\ sanOp = "env"
    /\ sanRes' = [t |-> "env", v |-> env(processEnv)]
    /\ sanPc' = "done"
    /\ UNCHANGED <<sanOp, sanArg, heap>>
    /\ UNCHANGED <<logVars, cliVars>>

CallValidateEnvironment ==
    /\ sanPc = "call" /\ sanOp = "validateEnvironment"
    /\ sanRes' = validateEnvironment(processEnv)
    /\ sanPc' = "done"
    /\ UNCHANGED <<sanOp, sanArg, heap>>
    /\ UNCHANGED <<logVars, cliVars>>

EnvNext == LoadEnv \/ CallValidateEnvironment

SpecEnv == EnvInit /\ [][EnvNext]_vars

Absent(penv) == {requiredVars[i] : i \in DOMAIN requiredVars} \ DOMAIN penv

\* C16 (as claimed): validateEnvironment raises exactly when a required name
\* is absent from the process environment, and then its error names every
\* absent required name.
C16_RaisesIffRequiredNameAbsent ==
    (sanPc = "done" /\ sanOp = "validateEnvironment")
    => /\ (sanRes.t = "thrown") <=> (Absent(processEnv) # {})
       /\ sanRes.t = "thrown"
          => Absent(processEnv) \subseteq {sanRes.names[i] : i \in DOMAIN sanRes.names}

\* The part of C16 that does not tell an empty entry from an absent one: the
\* error names every required name that is absent or empty, each once, and
\* the call returns when there is none.
ValidateEnvironmentNamesAllMissing ==
    (sanPc = "done" /\ sanOp = "validateEnvironment")
    => LET missing == {v \in {"BASE_URL", "API_BASE_URL"} :
                          v \notin DOMAIN processEnv \/ processEnv[v] = <<>>}
       IN /\ (sanRes.t = "thrown") <=> (missing # {})
          /\ {sanRes.names[i] : i \in DOMAIN sanRes.names} = missing
          /\ Len(sanRes.names) = Cardinality(missing)

\* C17 (as claimed): a setting whose environment entry exists has the value
\* of the entry, parsed to the setting's type, an empty entry included; only
\* a setting whose entry is absent has its default.
C17_EntryUsedWheneverItExists ==
    (sanPc = "done" /\ sanOp = "env")
    => /\ \A n \in {"BASE_URL", "API_BASE_URL", "LOG_LEVEL"} :
             n \in DOMAIN processEnv => sanRes.v[n] = processEnv[n]
       /\ "TEST_TIMEOUT" \in DOMAIN processEnv
          => sanRes.v.TEST_TIMEOUT = parseInt(processEnv["TEST_TIMEOUT"])
       /\ "CI" \in DOMAIN processEnv => sanRes.v.CI = (processEnv["CI"] = tTrue)
       /\ "BASE_URL" \notin DOMAIN processEnv => sanRes.v.BASE_URL = dBASE_URL
       /\ "API_BASE_URL" \notin DOMAIN processEnv => sanRes.v.API_BASE_URL = dAPI_BASE_URL
       /\ "LOG_LEVEL" \notin DOMAIN processEnv => sanRes.v.LOG_LEVEL = tInfo
       /\ "TEST_TIMEOUT" \notin DOMAIN processEnv => sanRes.v.TEST_TIMEOUT = JNum(30000)
       /\ "CI" \notin DOMAIN processEnv => sanRes.v.CI = FALSE

-----------------------------------------------------------------------------
(* What the Logger is required to do with its two sinks *)

\* severity, 1 the most severe
Severity(level) ==
    CASE level = "error" -> 1 [] level = "warn" -> 2
      [] level = "info" -> 3 [] level = "debug" -> 4

Passes(level) == Severity(level) <= Severity(logLevel)

Entries == {i \in DOMAIN console : console[i].kind = "entry"}

Notices == {i \in DOMAIN console : console[i].kind = "writeFailure"}

\* C18: a call of error / warn / info / debug writes to the sinks exactly when
\* its level is as severe as the configured level or more severe: whatever
\* was written passes the threshold, a call that passes it writes (console,
\* and file unless the append fails), and a call below it changes nothing.
C18_EmittedIffSevereEnough ==
    /\ \A i \in Entries : Passes(console[i].level)
    /\ \A i \in DOMAIN file : Passes(file[i].level)
    /\ Cardinality(Entries) = Len(file) + Cardinality(Notices)
    /\ LogRoom
       => /\ (ENABLED <<LoggerError>>_vars) <=> Passes("error")
          /\ (ENABLED <<LoggerWarn>>_vars) <=> Passes("warn")
          /\ (ENABLED <<LoggerInfo>>_vars) <=> Passes("info")
          /\ (ENABLED <<LoggerDebug>>_vars) <=> Passes("debug")

\* a warn call emitted to both sinks by a logger configured at warn
C18_Witness ==
    /\ logLevel = "warn"
    /\ \E i \in Entries : console[i].level = "warn"
    /\ \E i \in DOMAIN file : file[i].level = "warn"

IsPrefix(a, b) == Len(a) <= Len(b) /\ a = SubSeq(b, 1, Len(a))

FileFollowsConsole ==
    Notices = {}
    => /\ Len(file) = Len(console)
       /\ \A i \in DOMAIN file :
            /\ file[i].level = console[i].level
            /\ file[i].message = console[i].message
            /\ file[i].by = console[i].by
            /\ Truthy(file[i].data) => file[i].data = console[i].data

\* C19: as long as every append succeeded, the file holds one line per
\* emitted call, in call order, with that call's level, message and data; and
\* no step changes or removes a line that is in the file.
C19_FileAppendOnly == []FileFollowsConsole /\ [][IsPrefix(file, file')]_vars

\* two emitted calls of different levels, both in the file
C19_Witness ==
    /\ Notices = {}
    /\ Len(file) = 2
    /\ file[1].level # file[2].level

FailureReportedOnce ==
    /\ \A i \in Notices :
         /\ i > 1
         /\ console[i - 1].kind = "entry"
         /\ console[i - 1].by = console[i].by
         /\ console[i].stream = "error"
    /\ Cardinality(Entries) = Len(file) + Cardinality(Notices)

\* the client goes on after its log call, whether the append failed or not
CallerGoesOn ==
    \A k \in CallIds :
        /\ calls[k].pc # "idle" => calls[k].dispatches = 1
        /\ (calls[k].pc # "idle" /\ shouldLog(logLevel, "info"))
           => Cardinality(EntriesBy(k, "info")) >= 1
        /\ (calls[k].pc = "resolved" /\ shouldLog(logLevel, "info"))
           => Cardinality(EntriesBy(k, "info")) = 2

\* C20: a failed append does not stop the log call or its caller: the entry's
\* console line is there, directly followed by one report of the failure on
\* the console's error stream, the line is missing from the file, the
\* logger's level never changes, and later log calls write as usual.
C20_FailedAppendSwallowed ==
    [](FailureReportedOnce /\ CallerGoesOn) /\ [][logLevel' = logLevel]_vars

\* a call whose first log entry could not be appended, and whose second was
C20_Witness ==
    \E k \in CallIds, i \in Notices :
        /\ calls[k].pc = "resolved"
        /\ console[i].by = k
        /\ i + 1 \in Entries
        /\ console[i + 1].by = k
        /\ \E j \in DOMAIN file : file[j].by = k /\ file[j].message = console[i + 1].message

\* C29 (as claimed): validation agrees with resolution: whenever the
\* resolved settings env.BASE_URL and env.API_BASE_URL are both non-empty,
\* validateEnvironment returns normally; it raises only where a required
\* setting is empty after resolution.
C29_ValidationAgreesWithResolution ==
    (sanPc = "done" /\ sanOp = "validateEnvironment")
    => ((sanRes.t = "thrown")
           => \E n \in {"BASE_URL", "API_BASE_URL"} : env(processEnv)[n] = <<>>)

\* No process environment resolves a required setting to the empty text.
RequiredSettingsNeverEmpty ==
    /\ env(processEnv).BASE_URL # <<>>
    /\ env(processEnv).API_BASE_URL # <<>>

-----------------------------------------------------------------------------
(* Several calls in flight on one client (src/unnamed/part_001:252-272,
   368-383): the per-verb methods are async, so between the awaits of one
   call the steps of the others run, each step to completion. *)

\* most calls in flight at once
MaxParallel == 2

\* an ApiClient with room for MaxParallel calls, LOG_LEVEL unset (info), and
\* a log file that takes every line
RaceInit ==
    /\ SanIdle
    /\ extraHeaders = [r \in Contexts |-> <<>>]
    /\ calls = [k \in 1..MaxParallel |-> IdleCall]
    /\ authTrail = [r \in Contexts |-> NoTrail]
    /\ twin = [k \in 1..MaxParallel |-> IdleTwin]
    /\ disk = "ok"
    /\ LoggerConstructed(<<>>)

\* apiClient.post('/register', ...) issued without awaiting, and the
\* transport's completions in any order
RaceNext ==
    \/ ClientPost
    \/ TransportResponds
    \/ JsonSettles
    \/ TransportRaises

SpecRace == RaceInit /\ [][RaceNext]_vars

\* the line JSON.stringify(entry) + '\n' of a console entry
LineOf(entry) ==
    [level |-> entry.level, message |-> entry.message,
     data |-> JsonText(entry.data), by |-> entry.by]

\* the console entries, in the order they were emitted
RECURSIVE Emitted(_)
Emitted(con) ==
    IF con = <<>> THEN <<>>
    ELSE IF con[Len(con)].kind = "entry"
         THEN Append(Emitted(SubSeq(con, 1, Len(con) - 1)), con[Len(con)])
         ELSE Emitted(SubSeq(con, 1, Len(con) - 1))

OwnOutcome(k) ==
    /\ calls[k].pc = "resolved"
       => /\ Returned(k) /\ ~Raised(k)
          /\ calls[k].result = responseData(calls[k].response)
          /\ calls[k].result.url \in {calls[k].url, uRedirected}
    /\ calls[k].pc = "rejected"
       => /\ Raised(k) /\ ~Returned(k)
          /\ calls[k].result = [t |-> "rejected", error |-> calls[k].raised]
    /\ calls[k].pc # "idle" => calls[k].dispatches = 1

Settled(k) == calls[k].pc \in {"resolved", "rejected"}

\* C22: each call in flight ends with the outcome of its own transport
\* request: a resolved call returns the envelope built from the response its
\* own request received, a rejected call raises the error its own request
\* raised, each call made one request, and no step of another call changes
\* the outcome of a call that has settled.
C22_EachCallItsOwnResponse ==
    /\ [](\A k \in DOMAIN calls : OwnOutcome(k))
    /\ [][\A k \in DOMAIN calls : Settled(k) => calls'[k] = calls[k]]_vars

\* two calls in flight together, one failed and the other answered with 200
C22_Witness ==
    \E j, k \in DOMAIN calls :
        /\ calls[j].pc = "rejected"
        /\ calls[k].pc = "resolved"
        /\ calls[k].result.status = 200
        /\ \E a, b \in DOMAIN console :
             a < b /\ console[a].by = k /\ console[b].by = j /\ j < k

-----------------------------------------------------------------------------
(* Objects by reference. A value is a JSON value without parts of its own   *)
(* (a string, a number, ...) or a reference to an object or array of the    *)
(* heap; an object of the heap maps property names to values, an array is   *)
(* a sequence of values.                                                     *)

Ref(n) == [t |-> "ref", r |-> n]

IsRef(v) == v.t = "ref"

Object(properties) == [kind |-> "object", f |-> properties]

Array(elements) == [kind |-> "array", f |-> elements]

\* an object or array literal is evaluated: a new reference
New(h, made) == [heap |-> Append(h, made), ref |-> Ref(Len(h) + 1)]

\* the references that can be reached from a value
RECURSIVE Reach(_, _)
Reach(h, v) ==
    IF ~IsRef(v) THEN {}
    ELSE {v.r} \cup UNION {Reach(h, h[v.r].f[k]) : k \in DOMAIN h[v.r].f}

-----------------------------------------------------------------------------
(* TestDataGenerator (src/utils/logger.ts:255-353)                          *)

\* what a faker call returns for a property: a text or number that differs
\* from draw to draw
faker(property, n) == [t |-> "faker", of |-> property, n |-> n]

\* faulty variant: the generated properties are written over the overrides
withOverridesFirst(literal, overrides) == Spread(overrides, literal)

\* ...overrides at the end of the literal: the properties of overrides are
\* copied over those already written, nested values by reference
withOverrides(literal, overrides) == Spread(literal, overrides)

addressProperties == {"street", "city", "state", "zipCode", "country"}

addressLiteral(draw) == [k \in addressProperties |-> faker(k, draw.n)]

userProperties ==
    {"id", "email", "firstName", "lastName", "username", "phone", "dateOfBirth"}

generateUser(h, draw, overrides) ==
    LET address == New(h, Object(addressLiteral(draw)))
        literal == [k \in userProperties |-> faker(k, draw.n)]
                   @@ ("address" :> address.ref)
    IN New(address.heap, Object(withOverrides(literal, overrides)))

generateAuthData(h, draw, overrides) ==
    New(h, Object(withOverrides([k \in {"email", "password"} |-> faker(k, draw.n)],
                                overrides)))

productProperties ==
    {"id", "name", "description", "price", "category", "sku", "inStock", "quantity"}

generateProduct(h, draw, overrides) ==
    New(h, Object(withOverrides([k \in productProperties |-> faker(k, draw.n)],
                                overrides)))

generateAddress(h, draw, overrides) ==
    New(h, Object(withOverrides(addressLiteral(draw), overrides)))

\* Array.from({ length }, () => ({ productId, quantity, price }))
RECURSIVE orderItems(_, _, _, _)
orderItems(h, draw, length, made) ==
    IF Len(made) = length THEN New(h, Array(made))
    ELSE LET item == New(h, Object([k \in {"productId", "quantity", "price"} |->
                                       faker(k, draw.n)]))
         IN orderItems(item.heap, draw, length, Append(made, item.ref))

generateOrder(h, draw, overrides) ==
    LET items == orderItems(h, draw, draw.length, <<>>)
        shippingAddress == generateAddress(items.heap, draw, <<>>)
        literal == [k \in {"id", "userId", "total", "status"} |-> faker(k, draw.n)]
                   @@ ("items" :> items.ref)
                   @@ ("shippingAddress" :> shippingAddress.ref)
    IN New(shippingAddress.heap, Object(withOverrides(literal, overrides)))

generateErrorResponse(h, draw, overrides) ==
    LET error == New(h, Object([k \in {"code", "message", "details", "timestamp"} |->
                                   faker(k, draw.n)]))
    IN New(error.heap, Object(withOverrides(("error" :> error.ref), overrides)))

Generators ==
    {"generateUser", "generateAuthData", "generateProduct", "generateOrder",
     "generateAddress", "generateErrorResponse"}

\* the property names of a generator's literal
Generated(generator) ==
    CASE generator = "generateUser" -> userProperties \cup {"address"}
      [] generator = "generateAuthData" -> {"email", "password"}
      [] generator = "generateProduct" -> productProperties
      [] generator = "generateOrder" ->
            {"id", "userId", "items", "total", "status", "shippingAddress"}
      [] generator = "generateAddress" -> addressProperties
      [] generator = "generateErrorResponse" -> {"error"}

\* the caller's own objects: an address and an error description
CallerHeap ==
    <<Object([k \in addressProperties |-> JStr("Cebu")]),
      Object(("code" :> JStr("NOT_FOUND")) @@ ("message" :> JStr("m")))>>

aCallerAddress == Ref(1)

aCallerError == Ref(2)

\* the overrides a generator is called with; <<>> is no override
Overrides(generator) ==
    CASE generator = "generateUser" ->
            {<<>>, ("email" :> JStr("a@b.com")), ("address" :> aCallerAddress)}
      [] generator = "generateAuthData" ->
            {<<>>, ("email" :> JStr("a@b.com")), ("password" :> Undef)}
      [] generator = "generateProduct" -> {<<>>, ("price" :> JNum(0))}
      [] generator = "generateOrder" ->
            {<<>>, ("status" :> JStr("shipped")),
             ("shippingAddress" :> aCallerAddress)}
      [] generator = "generateAddress" -> {<<>>, ("city" :> JStr("Cebu"))}
      [] generator = "generateErrorResponse" -> {<<>>, ("error" :> aCallerError)}

\* most records generated in one run
MaxRecords == 2

\* most items of a generated order (faker.number.int({ min: 1, max: 5 }))
MaxItems == 2

Draws == {"d1", "d2"}

Records == sanRes.records

NoRecords == [t |-> "records", records |-> <<>>]

GenInit ==
    /\ sanOp = "TestDataGenerator" /\ sanArg = Undef /\ sanPc = "idle"
    /\ sanRes = NoRecords
    /\ heap = CallerHeap
    /\ LoggerConstructed(<<>>)
    /\ disk = "ok"
    /\ ClientsConstructed

\* the generator returns: the record is kept, with what it was called with
\* and the number of objects that existed before the call
Returns(generator, draw, overrides, made) ==
    /\ Len(Records) < MaxRecords
    /\ heap' = made.heap
    /\ sanRes' = [sanRes EXCEPT !.records =
                     Append(@, [generator |-> generator, draw |-> draw,
                                overrides |-> overrides, ref |-> made.ref,
                                before |-> Len(heap)])]
    /\ sanPc' = "done"
    /\ UNCHANGED <<sanOp, sanArg, logVars, cliVars>>

OneDraw(n) == [n |-> n, length |-> 1]

CallGenerateUser ==
    \E n \in Draws, overrides \in Overrides("generateUser") :
        Returns("generateUser", OneDraw(n), overrides,
                generateUser(heap, OneDraw(n), overrides))

CallGenerateAuthData ==
    \E n \in Draws, overrides \in Overrides("generateAuthData") :
        Returns("generateAuthData", OneDraw(n), overrides,
                generateAuthData(heap, OneDraw(n), overrides))

CallGenerateProduct ==
    \E n \in Draws, overrides \in Overrides("generateProduct") :
        Returns("generateProduct", OneDraw(n), overrides,
                generateProduct(heap, OneDraw(n), overrides))

CallGenerateOrder ==
    \E n \in Draws, length \in 1..MaxItems, overrides \in Overrides("generateOrder") :
        Returns("generateOrder", [n |-> n, length |-> length], overrides,
                generateOrder(heap, [n |-> n, length |-> length], overrides))

CallGenerateAddress ==
    \E n \in Draws, overrides \in Overrides("generateAddress") :
        Returns("generateAddress", OneDraw(n), overrides,
                generateAddress(heap, OneDraw(n), overrides))

CallGenerateErrorResponse ==
    \E n \in Draws, overrides \in Overrides("generateErrorResponse") :
        Returns("generateErrorResponse", OneDraw(n), overrides,
                generateErrorResponse(heap, OneDraw(n), overrides))

GenNext ==
    \/ CallGenerateUser
    \/ CallGenerateAuthData
    \/ CallGenerateProduct
    \/ CallGenerateOrder
    \/ CallGenerateAddress
    \/ CallGenerateErrorResponse

SpecGen == GenInit /\ [][GenNext]_vars

\* a value the call itself made: the faker text of the property, or an
\* object that did not exist before the call and holds nothing older
FreshlyGenerated(record, property, value) ==
    IF IsRef(value)
    THEN \A r \in Reach(heap, value) : r > record.before
    ELSE value = faker(property, record.draw.n)

\* C23: in the record a generator returns, every property of the override
\* holds the value supplied, nested values as the very object supplied, and
\* every other property of the generator's literal holds a value generated
\* by this call; the record has no further property.
C23_OverridesMergedShallow ==
    \A i \in DOMAIN Records :
        LET record == Records[i]
            properties == heap[record.ref.r].f
        IN /\ DOMAIN properties = Generated(record.generator) \cup DOMAIN record.overrides
           /\ \A k \in DOMAIN record.overrides : properties[k] = record.overrides[k]
           /\ \A k \in Generated(record.generator) \ DOMAIN record.overrides :
                FreshlyGenerated(record, k, properties[k])

\* a user with the caller's address and a generated email, and an order with
\* an overridden status and generated items
C23_Witness ==
    \E i, j \in DOMAIN Records :
        /\ Records[i].generator = "generateUser"
        /\ Records[i].overrides = ("address" :> aCallerAddress)
        /\ heap[Records[i].ref.r].f["address"] = aCallerAddress
        /\ heap[Records[i].ref.r].f["email"] = faker("email", Records[i].draw.n)
        /\ Records[j].generator = "generateOrder"
        /\ Records[j].overrides = ("status" :> JStr("shipped"))
        /\ IsRef(heap[Records[j].ref.r].f["items"])

\* C24 (as claimed): two records returned by the generator, with or without
\* overrides, have no object in common, so that nothing done to one of them
\* or to its nested objects shows in the other.
C24_RecordsShareNothing ==
    \A i, j \in DOMAIN Records :
        i # j => Reach(heap, Records[i].ref) \cap Reach(heap, Records[j].ref) = {}

\* what the generator itself makes is not shared: two records have in common
\* at most objects that the caller supplied in an override
GeneratedPartsNotShared ==
    \A i, j \in DOMAIN Records :
        i # j => \A r \in Reach(heap, Records[i].ref) \cap Reach(heap, Records[j].ref) :
                    r \in DOMAIN CallerHeap

-----------------------------------------------------------------------------
(* The body sanitizer on objects held by reference                          *)
(* (src/utils/logger.ts:218-243): which objects it makes and which it       *)
(* writes to.                                                               *)

Pick(S) == CHOOSE x \in S : TRUE

\* a JSON value is placed in the heap: <<heap, value>> as a record
RECURSIVE Store(_, _)
RECURSIVE StoreProperties(_, _, _, _)
RECURSIVE StoreElements(_, _, _)
StoreProperties(h, o, todo, made) ==
    IF todo = {} THEN [heap |-> h, f |-> made]
    ELSE LET k == Pick(todo)
             part == Store(h, o[k])
         IN StoreProperties(part.heap, o, todo \ {k}, made @@ (k :> part.val))

StoreElements(h, a, made) ==
    IF Len(made) = Len(a) THEN [heap |-> h, f |-> made]
    ELSE LET part == Store(h, a[Len(made) + 1])
         IN StoreElements(part.heap, a, Append(made, part.val))

Store(h, v) ==
    CASE v.t = "arr" ->
            LET parts == StoreElements(h, v.a, <<>>)
                made == New(parts.heap, Array(parts.f))
            IN [heap |-> made.heap, val |-> made.ref]
      [] v.t = "obj" ->
            LET parts == StoreProperties(h, v.o, DOMAIN v.o, <<>>)
                made == New(parts.heap, Object(parts.f))
            IN [heap |-> made.heap, val |-> made.ref]
      [] OTHER -> [heap |-> h, val |-> v]

\* the JSON value that a value of the heap stands for
RECURSIVE Deep(_, _)
Deep(h, v) ==
    IF ~IsRef(v) THEN v
    ELSE IF h[v.r].kind = "array"
         THEN JArr([i \in 1..Len(h[v.r].f) |-> Deep(h, h[v.r].f[i])])
         ELSE JObj([k \in DOMAIN h[v.r].f |-> Deep(h, h[v.r].f[k])])

\* JSON.parse(JSON.stringify(body)): every object and array of the text is
\* made anew; a property holding undefined is left out, an array slot
\* holding undefined becomes null
RECURSIVE parseStringify(_, _)
RECURSIVE parseProperties(_, _, _, _)
RECURSIVE parseElements(_, _, _)
parseProperties(h, o, todo, made) ==
    IF todo = {} THEN [heap |-> h, f |-> made]
    ELSE LET k == Pick(todo)
             part == parseStringify(h, o[k])
         IN parseProperties(part.heap, o, todo \ {k}, made @@ (k :> part.val))

parseElements(h, a, made) ==
    IF Len(made) = Len(a) THEN [heap |-> h, f |-> made]
    ELSE LET part == IF a[Len(made) + 1] = Undef
                     THEN [heap |-> h, val |-> JNull]
                     ELSE parseStringify(h, a[Len(made) + 1])
         IN parseElements(part.heap, a, Append(made, part.val))

parseStringify(h, v) ==
    IF ~IsRef(v) THEN [heap |-> h, val |-> v]
    ELSE IF h[v.r].kind = "array"
         THEN LET parts == parseElements(h, h[v.r].f, <<>>)
                  made == New(parts.heap, Array(parts.f))
              IN [heap |-> made.heap, val |-> made.ref]
         ELSE LET o == h[v.r].f
                  parts == parseProperties(h, o, {k \in DOMAIN o : o[k] # Undef}, <<>>)
                  made == New(parts.heap, Object(parts.f))
              IN [heap |-> made.heap, val |-> made.ref]

\* the inner closure sanitizeObject: obj.map(...) makes a new array, and
\* `result` is a new object that is the only one written to
RECURSIVE sanitizeObjectRef(_, _)
RECURSIVE sanitizeProperties(_, _, _, _)
RECURSIVE sanitizeElements(_, _, _)
sanitizeProperties(h, o, todo, result) ==
    IF todo = {} THEN [heap |-> h, f |-> result]
    ELSE LET key == Pick(todo)
             part == IF isSensitiveField(key)
                     THEN [heap |-> h, val |-> JStr(REDACTED)]
                     ELSE sanitizeObjectRef(h, o[key])
         IN sanitizeProperties(part.heap, o, todo \ {key}, result @@ (key :> part.val))

sanitizeElements(h, a, made) ==
    IF Len(made) = Len(a) THEN [heap |-> h, f |-> made]
    ELSE LET part == sanitizeObjectRef(h, a[Len(made) + 1])
         IN sanitizeElements(part.heap, a, Append(made, part.val))

sanitizeObjectRef(h, obj) ==
    IF ~IsRef(obj) THEN [heap |-> h, val |-> obj]
    ELSE IF h[obj.r].kind = "array"
         THEN LET parts == sanitizeElements(h, h[obj.r].f, <<>>)
                  made == New(parts.heap, Array(parts.f))
              IN [heap |-> made.heap, val |-> made.ref]
         ELSE LET parts == sanitizeProperties(h, h[obj.r].f, DOMAIN h[obj.r].f, <<>>)
                  made == New(parts.heap, Object(parts.f))
              IN [heap |-> made.heap, val |-> made.ref]

\* faulty variant of the closure: the markers are written into the object
\* that was handed in
RECURSIVE redactInPlace(_, _, _)
redactInPlace(h, obj, todo) ==
    IF ~IsRef(obj) \/ todo = {} THEN h
    ELSE LET key == Pick(todo)
             after == IF h[obj.r].kind = "object" /\ isSensitiveField(key)
                      THEN [h EXCEPT ![obj.r].f[key] = JStr(REDACTED)]
                      ELSE redactInPlace(h, h[obj.r].f[key], DOMAIN h[h[obj.r].f[key].r].f)
         IN redactInPlace(after, obj, todo \ {key})

\* faulty variant: no copy is made and the body itself is redacted
sanitizeBodyInPlace(h, body) ==
    IF ~Truthy(body) THEN [heap |-> h, val |-> Undef]
    ELSE IF ~IsRef(body) THEN [heap |-> h, val |-> body]
    ELSE [heap |-> redactInPlace(h, body, DOMAIN h[body.r].f), val |-> body]

\* sanitizeBody: the heap after the call and the value returned
sanitizeBodyRef(h, body) ==
    IF ~Truthy(body) THEN [heap |-> h, val |-> Undef]
    ELSE LET sanitized == parseStringify(h, body)
         IN sanitizeObjectRef(sanitized.heap, sanitized.val)

\* objects with one named field and a property holding undefined
OneFieldObjects ==
    {JObj((k :> Leaf) @@ (kId :> Undef)) : k \in FieldKeys \ {kId}}

\* the bodies handed over: scalars, flat objects, and objects holding an
\* object and an array that holds an object and undefined
AliasBodies ==
    TopScalars \cup OneFieldObjects \cup ResponseBodyInputs
    \cup {JObj((kUser :> x) @@ (kItems :> JArr(<<x, Undef>>))) : x \in OneFieldObjects}

\* a caller's body in the heap, and the JSON value it stands for
AliasInit ==
    /\ sanPc = "call"
    /\ sanRes = Pending
    /\ sanOp \in {"sanitizeBody", "logRequest", "logResponse"}
    /\ \E body \in AliasBodies :
         /\ heap = Store(<<>>, body).heap
         /\ sanArg = [body |-> Store(<<>>, body).val, json |-> body]
    /\ LoggerConstructed(<<>>)
    /\ disk = "ok"
    /\ ClientsConstructed

CallSanitizeBodyRef ==
    /\ sanPc = "call" /\ sanOp = "sanitizeBody"
    /\ LET done == sanitizeBodyRef(heap, sanArg.body)
       IN /\ heap' = done.heap
          /\ sanRes' = [t |-> "returned", val |-> done.val]
    /\ sanPc' = "done"
    /\ UNCHANGED <<sanOp, sanArg, logVars, cliVars>>

\* logRequest(method, url, undefined, body) with the body held by reference
LogRequestRef ==
    /\ sanPc = "call" /\ sanOp = "logRequest"
    /\ LET done == sanitizeBodyRef(heap, sanArg.body)
       IN /\ heap' = done.heap
          /\ sanRes' = [t |-> "returned", val |-> Undef]
          /\ Logged(logRequest(logLevel, console, file, "POST", uRegister, Undef,
                               Deep(heap, sanArg.body), 0, TRUE))
    /\ sanPc' = "done"
    /\ UNCHANGED <<sanOp, sanArg, processEnv, logLevel, disk, cliVars>>

\* logResponse(status, url, undefined, body) with the body held by reference
LogResponseRef ==
    /\ sanPc = "call" /\ sanOp = "logResponse"
    /\ LET done == sanitizeBodyRef(heap, sanArg.body)
       IN /\ heap' = done.heap
          /\ sanRes' = [t |-> "returned", val |-> Undef]
          /\ Logged(logResponse(logLevel, console, file, "201", uRegister, Undef,
                                Deep(heap, sanArg.body), 0, TRUE))
    /\ sanPc' = "done"
    /\ UNCHANGED <<sanOp, sanArg, processEnv, logLevel, disk, cliVars>>

AliasNext == CallSanitizeBodyRef \/ LogRequestRef \/ LogResponseRef

SpecAlias == AliasInit /\ [][AliasNext]_vars

\* the caller's body reads as it did before the call
BodyAsBefore == sanPc = "done" => Deep(heap, sanArg.body) = sanArg.json

\* C25: the body sanitizer, called on its own or by logRequest or
\* logResponse, writes to no object or array that existed before the call:
\* afterwards the caller's body, with every nested object and array, is as
\* it was.
C25_BodyNotMutated ==
    /\ []BodyAsBefore
    /\ [][\A r \in DOMAIN heap : r \in DOMAIN heap' /\ heap'[r] = heap[r]]_vars

\* a body with a sensitive field inside a nested object went through
\* logRequest: the logged copy is redacted, the body is not
C25_Witness ==
    /\ sanPc = "done" /\ sanOp = "logRequest"
    /\ IsRef(sanArg.body)
    /\ \E r \in DOMAIN heap :
         /\ r # sanArg.body.r
         /\ r \in Reach(heap, sanArg.body)
         /\ heap[r].kind = "object"
         /\ kPassword \in DOMAIN heap[r].f
         /\ heap[r].f[kPassword] = Leaf
    /\ Len(console) = 1
    /\ ContainsRedacted(console[1].data)

\* the by-reference sanitizer returns what the sanitizer on values returns
SanitizersAgree ==
    (sanPc = "done" /\ sanOp = "sanitizeBody")
        => Deep(heap, sanRes.val) = sanitizeBody(sanArg.json)

-----------------------------------------------------------------------------
(* buildRequestOptions applied to one method and one options object *)

Methods == {"GET", "POST", "PUT", "DELETE", "PATCH"}

\* per-request timeouts in milliseconds; 0 is Playwright's "no timeout"
TimeoutInputs == {Undef, JNum(0), JNum(1), JNum(5000)}

OptionsInputs ==
    [headers : {Undef, (nAuthorizationCap :> "Basic u")},
     data : {Undef, Credentials},
     params : {Undef, ("page" :> "2")},
     timeout : TimeoutInputs]

OptionsInit ==
    /\ sanPc = "call"
    /\ heap = <<>>
    /\ sanRes = Pending
    /\ sanOp = "buildRequestOptions"
    /\ sanArg \in [method : Methods, options : OptionsInputs]
    /\ LoggerConstructed(<<>>)
    /\ disk = "ok"
    /\ ClientsConstructed

CallBuildRequestOptions ==
    /\ sanPc = "call" /\ sanOp = "buildRequestOptions"
    /\ sanRes' = [t |-> "options",
                  v |-> buildRequestOptions(sanArg.method, sanArg.options)]
    /\ sanPc' = "done"
    /\ UNCHANGED <<sanOp, sanArg, heap>>
    /\ UNCHANGED <<logVars, cliVars>>

OptionsNext == CallBuildRequestOptions

SpecOptions == OptionsInit /\ [][OptionsNext]_vars

OptionsDone == sanPc = "done" /\ sanOp = "buildRequestOptions"

\* C27 (as claimed): the timeout of the request is the caller's
\* options.timeout whenever one was given, 0 included, and TEST_TIMEOUT only
\* when none was given.
C27_CallerTimeoutWins ==
    OptionsDone
        => sanRes.v.timeout = IF sanArg.options.timeout # Undef
                              THEN sanArg.options.timeout
                              ELSE JNum(DefaultTestTimeout)

\* A timeout other than 0 is handed on as given, and none gives TEST_TIMEOUT.
NonZeroTimeoutWins ==
    (OptionsDone /\ sanArg.options.timeout # JNum(0))
        => sanRes.v.timeout = IF sanArg.options.timeout # Undef
                              THEN sanArg.options.timeout
                              ELSE JNum(DefaultTestTimeout)

-----------------------------------------------------------------------------
(* TestDataGenerator.generatePaginationData (src/utils/logger.ts:358-376)    *)

Max(a, b) == IF a >= b THEN a ELSE b

Min(a, b) == IF a <= b THEN a ELSE b

\* Math.ceil(a / b) for a >= 0 and b >= 1
Ceil(a, b) == (a + b - 1) \div b

\* Array.prototype.slice(start, end): a negative index counts from the end
\* of the array, and both indices are clamped to the array
RelativeIndex(index, length) ==
    IF index < 0 THEN Max(length + index, 0) ELSE Min(index, length)

slice(items, start, end) ==
    LET from == RelativeIndex(start, Len(items))
        to == RelativeIndex(end, Len(items))
    IN SubSeq(items, from + 1, to)

generatePaginationData(items, page, limit) ==
    LET total == Len(items)
        totalPages == Ceil(total, limit)
        startIndex == (page - 1) * limit
        endIndex == startIndex + limit
        paginatedItems == slice(items, startIndex, endIndex)
    IN [data |-> paginatedItems,
        pagination |-> [page |-> page, limit |-> limit, total |-> total,
                        totalPages |-> totalPages,
                        hasNext |-> page < totalPages,
                        hasPrev |-> page > 1]]

\* longest item list
MaxTotal == 3

\* pages run from -MaxPage to MaxPage
MaxPage == 4

\* limits run from 1 to MaxLimit
MaxLimit == 3

PageInit ==
    /\ sanPc = "call"
    /\ heap = <<>>
    /\ sanRes = Pending
    /\ sanOp = "generatePaginationData"
    /\ \E total \in 0..MaxTotal, page \in -MaxPage..MaxPage, limit \in 1..MaxLimit :
         sanArg = [items |-> [i \in 1..total |-> i], page |-> page, limit |-> limit]
    /\ LoggerConstructed(<<>>)
    /\ disk = "ok"
    /\ ClientsConstructed

CallGeneratePaginationData ==
    /\ sanPc = "call" /\ sanOp = "generatePaginationData"
    /\ sanRes' = [t |-> "returned",
                  v |-> generatePaginationData(sanArg.items, sanArg.page, sanArg.limit)]
    /\ sanPc' = "done"
    /\ UNCHANGED <<sanOp, sanArg, heap>>
    /\ UNCHANGED <<logVars, cliVars>>

PageNext == CallGeneratePaginationData

SpecPage == PageInit /\ [][PageNext]_vars

PageDone == sanPc = "done" /\ sanOp = "generatePaginationData"

\* the least number of pages of `limit` items that hold `total` items
PagesFor(total, limit) ==
    CHOOSE n \in 0..total : n * limit >= total /\ (n = 0 \/ (n - 1) * limit < total)

\* the envelope the claim describes for these arguments
Envelope(items, page, limit) ==
    LET totalPages == PagesFor(Len(items), limit)
    IN [data |-> IF 1 <= page /\ page <= totalPages
                 THEN [i \in 1..(Min(page * limit, Len(items)) - (page - 1) * limit) |->
                          items[(page - 1) * limit + i]]
                 ELSE <<>>,
        pagination |-> [page |-> page, limit |-> limit, total |-> Len(items),
                        totalPages |-> totalPages,
                        hasNext |-> page < totalPages,
                        hasPrev |-> page > 1]]

\* C30 (as claimed): for every item list, every integer page and every
\* limit >= 1 the envelope holds total = the number of items, totalPages =
\* ceil(total / limit), hasNext = page < totalPages, hasPrev = page > 1, and
\* as data the items (page-1)*limit .. page*limit-1 when 1 <= page <=
\* totalPages and no item for every page outside that range.
C30_PaginationEnvelope ==
    PageDone => sanRes.v = Envelope(sanArg.items, sanArg.page, sanArg.limit)

\* The envelope is as described for every page from 0 upwards.
PaginationFromPageZero ==
    (PageDone /\ sanArg.page >= 0)
        => sanRes.v = Envelope(sanArg.items, sanArg.page, sanArg.limit)

-----------------------------------------------------------------------------
(* The sanitizers applied to one input *)

SanInit ==
    /\ sanPc = "call"
    /\ heap = <<>>
    /\ sanRes = Pending
    /\ \/ sanOp = "headers" /\ sanArg \in HeaderInputs
       \/ sanOp = "body" /\ sanArg \in BodyInputs
    /\ LoggerConstructed(<<>>)
    /\ disk = "ok"
    /\ ClientsConstructed

CallSanitizeHeaders ==
    /\ sanPc = "call" /\ sanOp = "headers"
    /\ sanRes' = sanitizeHeaders(sanArg)
    /\ sanPc' = "done"
    /\ UNCHANGED <<sanOp, sanArg, heap>>
    /\ UNCHANGED <<logVars, cliVars>>

CallSanitizeBody ==
    /\ sanPc = "call" /\ sanOp = "body"
    /\ sanRes' = sanitizeBody(sanArg)
    /\ sanPc' = "done"
    /\ UNCHANGED <<sanOp, sanArg, heap>>
    /\ UNCHANGED <<logVars, cliVars>>

SanNext == CallSanitizeHeaders \/ CallSanitizeBody

SpecSan == SanInit /\ [][SanNext]_vars

-----------------------------------------------------------------------------
(* What the sanitizers are required to do *)

lCreditcard == <<"c","r","e","d","i","t","c","a","r","d">>

\* the six lowercase substrings that mark a field name as sensitive
RequiredSubstrings == {fPassword, fToken, fSecret, fKey, fSsn, lCreditcard}

RequiredSensitive(key) ==
    \E sub \in RequiredSubstrings : Includes(ToLowerCase(key), sub)

\* A path into a JSON-like value: steps [k |-> key] into an object and
\* [i |-> index] into an array.
RECURSIVE Paths(_)
Paths(v) ==
    {<<>>} \cup
    CASE v.t = "arr" ->
            UNION {{<<[i |-> j]>> \o p : p \in Paths(v.a[j])} : j \in 1..Len(v.a)}
      [] v.t = "obj" ->
            UNION {{<<[k |-> q]>> \o p : p \in Paths(v.o[q])} : q \in DOMAIN v.o}
      [] OTHER -> {}

RECURSIVE At(_, _)
At(v, p) ==
    IF p = <<>> THEN v
    ELSE IF "i" \in DOMAIN Head(p)
         THEN At(v.a[Head(p).i], Tail(p))
         ELSE At(v.o[Head(p).k], Tail(p))

IsContainer(v) == v.t \in {"arr", "obj"}

\* At every path of `in` that passes under no field marked by Sens before its
\* last step: a last step marked by Sens holds the marker in `out`, and any
\* other last step holding a scalar holds the same scalar in `out`.
RedactedAtEveryDepth(in, out, Sens(_)) ==
    \A p \in Paths(in) \ {<<>>} :
        (\A j \in 1..(Len(p) - 1) : ~("k" \in DOMAIN p[j] /\ Sens(p[j].k)))
        => /\ p \in Paths(out)
           /\ IF "k" \in DOMAIN p[Len(p)] /\ Sens(p[Len(p)].k)
              THEN At(out, p) = JStr(REDACTED)
              ELSE ~IsContainer(At(in, p)) => At(out, p) = At(in, p)

SanBodyDone == sanPc = "done" /\ sanOp = "body"

SanHeadersDone == sanPc = "done" /\ sanOp = "headers" /\ sanArg # Undef

\* C1 (as claimed): a header whose name is authorization, cookie, x-api-key or
\* x-auth-token in any letter case, and which has a value, holds the marker
\* after sanitizing; every other header keeps its value.
C1_HeadersRedactedInAnyCase ==
    SanHeadersDone =>
        \A name \in DOMAIN sanArg :
            IF ToLowerCase(name) \in sensitiveKeys
            THEN sanArg[name] # "" => sanRes[name] = REDACTED
            ELSE sanRes[name] = sanArg[name]

\* C2 (as claimed): in a sanitized object or array every field whose name
\* contains one of the six sensitive substrings holds the marker, at every
\* nesting depth, through arrays and objects, and sibling fields with no
\* sensitive substring keep their value.
C2_BodyRedactedAtEveryDepth ==
    (SanBodyDone /\ IsContainer(sanArg))
        => RedactedAtEveryDepth(sanArg, sanRes, RequiredSensitive)

\* The recursion itself reaches every depth for the field names the code's own
\* test marks.
SanitizeBodyRecursesEverywhere ==
    (SanBodyDone /\ IsContainer(sanArg))
        => RedactedAtEveryDepth(sanArg, sanRes, isSensitiveField)

\* C3 (as claimed): for each of the six substrings, a top-level field whose
\* lowercase name contains it holds the marker after sanitizing.
C3_EachSubstringRedacted ==
    (SanBodyDone /\ sanArg.t = "obj")
        => \A sub \in RequiredSubstrings :
             \A key \in DOMAIN sanArg.o :
                Includes(ToLowerCase(key), sub) => sanRes.o[key] = JStr(REDACTED)

\* C26 (as claimed): a top-level input that is neither an object nor an
\* array (a string, the empty one included, a number, 0 included, true,
\* false, null) comes back from the body sanitizer unchanged.
C26_ScalarsReturnedUnchanged ==
    (SanBodyDone /\ sanArg.t \in {"str", "num", "bool", "null"})
        => sanRes = sanArg

\* The scalars that JavaScript takes for true come back unchanged.
TruthyScalarsReturnedUnchanged ==
    (SanBodyDone /\ sanArg.t \in {"str", "num", "bool"} /\ Truthy(sanArg))
        => sanRes = sanArg

====
